---- MODULE Spec2Model ----
(***************************************************************************)
(* Connection session and command dispatcher of the UberSolar BLE client   *)
(* (ubersolar/devices/device.py, class UberSolarBaseDevice).               *)
(*                                                                         *)
(* The program runs on one asyncio event loop: the code between two        *)
(* suspension points (an await that really suspends) is atomic.  Every     *)
(* action below is one such segment: it starts where a coroutine is        *)
(* resumed and runs to the next suspension, raise or return.  The segments *)
(* are written as operators from a state record to a state record, so that *)
(* a segment that continues into the next function (the retry loop calling *)
(* _send_command_locked again) is a composition of operators.              *)
(*                                                                         *)
(* The loop runs its ready handles first in, first out.  A handle becomes  *)
(* ready when a transport primitive or a sleep completes, when a lock is   *)
(* released to its first waiter, when a task is created and when the idle  *)
(* timer is due; "ready" is that queue.                                    *)
(***************************************************************************)
EXTENDS Integers, Sequences, FiniteSets, TLC

\* Largest retry limit a caller passes (retry_count / retry argument).
MaxRetry == 1
\* Largest number of timed-disconnect tasks alive at once.
MaxTimed == 2

\* The caller tasks that use the one session concurrently.
Tasks == {"t1", "t2"}
\* The identity under which a task created by _disconnect_from_timer holds
\* or waits for the connect lock.
Timed == "T"
NoOne == "-"

VARIABLES
    ready,       \* the loop's queue of ready handles
    pc,          \* per caller: the suspension point it is at
    attempt,     \* per caller: loop variable of the retry loop
    retry,       \* per caller: the retry limit of the current send
    cmd,         \* per caller: TRUE iff the command is non-empty
    exc,         \* per caller: the exception in flight through a handler
    result,      \* per caller: how the last send ended
    fails,       \* per caller: number of failures that reached the retry loop
    lastFail,    \* per caller: the last of these failures
    connects,    \* per caller: transport connects completed in this send
    written,     \* per caller: writes that succeeded in the last send
    afterDrop,   \* per caller: the send started on a link the transport dropped
    opLocked, opOwner, opWaiters,         \* self._operation_lock
    connLocked, connOwner, connWaiters,   \* self._connect_lock
    client,      \* self._client: "None", or its is_connected ("Up"/"Down")
    readChar,    \* self._read_char is not None
    writeChar,   \* self._write_char is not None
    timer,       \* self._disconnect_timer: "None", "Armed" (scheduled),
                 \* "Due" (its callback is ready) or "Spent" (it has run)
    timerBehind, \* ready handles queued before the timer was armed
    expected,    \* self._expected_disconnect
    lclient,     \* local client of _ensure_connected, not yet stored
    dclient,     \* local client of _execute_disconnect, being disconnected
    timedNew,    \* timed-disconnect tasks created and not yet started
    tpc,         \* the timed-disconnect task inside the connect lock
    cbError,     \* the timer callback raised (read of None.is_connected)
    rearmed,     \* history: the timer callback has rearmed the timer during
                 \* the send that now holds the operation lock
    armedIn,     \* history: the caller whose send held the operation lock
                 \* when the timer that is set was armed
    spared,      \* history: a timed disconnect has found the timer that is
                 \* set and returned, since the last send ended
    subscribed   \* history: on the link of the stored handle start_notify
                 \* has returned and the settle delay is over

\* The status side of the device object, and the single-switch operations
\* of UberSmart that read and write it (ubersolar/devices/ubersmart.py).
VARIABLES
    status_data, \* self.status_data: .has iff the device address is a key
                 \* of it, .m the mapping stored under that key
    linked,      \* the link is up and the notifications are subscribed
    opc,         \* where the operation in progress is suspended
    op,          \* the operation in progress (or the last one)
    key,         \* the command the operation has passed to _send_command
    opResult,    \* how the last operation ended
    sent,        \* the command the last operation wrote, <<>> if none
    latest,      \* history: per key, the last frame that carried it since
                 \* the mapping was last created
    noted,       \* history: a notification has arrived since the operation
                 \* in progress (or the last one) was started
    again,       \* history: the operation repeats the one before it, with
                 \* no notification since that one was started
    prev         \* history: when again, how the operation before ended and
                 \* the command it wrote

dvars == <<status_data, linked, opc, op, key, opResult, sent, latest, noted,
           again, prev>>

\* The construction of the time payload of the pyubersolar variant
\* (pyubersolar/devices/ubersmart.py, _build_time_payload).
VARIABLES
    value,       \* the datetime passed in: .ts its instant in seconds since
                 \* the epoch, .aware whether it has a tzinfo, .off what
                 \* value.utcoffset() returns, in seconds
    payload,     \* the bytearray returned; <<>> before the call or when
                 \* the call raises
    tlog         \* the warnings logged by the call

tvars == <<value, payload, tlog>>

\* The check of a command's response (device.py, _check_command_result).
VARIABLES
    response,    \* the arguments of the call: .none iff result is None,
                 \* .bytes the result otherwise, .index, .values
    checked      \* how the call ended: "raise" (UberSmartOperationError),
                 \* "True" or "False"; "none" before the call

cvars == <<response, checked>>

\* The decoding of one frame (adv_parsers/ubersmart.py, process_ubersmart).
VARIABLES
    frame,       \* the bytes passed in
    decoded      \* .done once the call has ended, .ok iff it returned,
                 \* .frag the fragment it returned

xvars == <<frame, decoded>>

\* The single-switch operations of the pyubersolar variant
\* (pyubersolar/devices/ubersmart.py) and the buffer they work on.
VARIABLES
    pybuf,       \* status_data[address]["AllSwitches"]: the cached buffer
    pydev,       \* the four switches as the device has them
    pyop,        \* the operation that awaits its send, "idle" if none
    pykey,       \* the command that operation passed to _send_command
    pysent,      \* the last command written to the device, <<>> if none
    pyprior      \* the cached buffer as it was when the operation in flight
                 \* was called, or as a later notification left it

yvars == <<pybuf, pydev, pyop, pykey, pysent, pyprior>>

\* update() and the callbacks subscribed to it (device.py, subscribe,
\* update, _fire_callbacks).
VARIABLES
    callbacks,   \* self._callbacks: the subscribed callbacks, in order
    now,         \* time.monotonic()
    last_full,   \* self._last_full_update
    upc,         \* "poll" while update() awaits get_info(), else "idle"
    upResult,    \* how the last update() ended: "True" or "raise"
    firedLast    \* history: per callback, how often the last update that
                 \* got past its poll invoked it

uvars == <<callbacks, now, last_full, upc, upResult, firedLast>>

\* The variables of the functions and of the parts that touch no state of
\* the session modelled above.
pvars == <<tvars, cvars, xvars, yvars, uvars>>

svars == <<ready, pc, attempt, retry, cmd, exc, result, fails, lastFail,
           connects, written, afterDrop,
          opLocked, opOwner, opWaiters, connLocked, connOwner, connWaiters,
          client, readChar, writeChar, timer, timerBehind, expected,
          lclient, dclient, timedNew, tpc, cbError, rearmed, armedIn, spared,
          subscribed>>

vars == <<svars, dvars, pvars>>

\* The current state as a record, and the assignment of a record to the
\* primed variables.
S ==
    [ready |-> ready, pc |-> pc, attempt |-> attempt, retry |-> retry, cmd |-> cmd,
     exc |-> exc, result |-> result, fails |-> fails,
     lastFail |-> lastFail, connects |-> connects, written |-> written,
     afterDrop |-> afterDrop,
     opLocked |-> opLocked, opOwner |-> opOwner, opWaiters |-> opWaiters,
     connLocked |-> connLocked, connOwner |-> connOwner,
     connWaiters |-> connWaiters,
     client |-> client, readChar |-> readChar, writeChar |-> writeChar,
     timer |-> timer, timerBehind |-> timerBehind,
     expected |-> expected, lclient |-> lclient,
     dclient |-> dclient, timedNew |-> timedNew, tpc |-> tpc,
     cbError |-> cbError, rearmed |-> rearmed, armedIn |-> armedIn,
     spared |-> spared, subscribed |-> subscribed]

Apply(r) ==
    /\ ready' = r.ready
    /\ pc' = r.pc /\ attempt' = r.attempt /\ retry' = r.retry
    /\ cmd' = r.cmd /\ exc' = r.exc /\ result' = r.result
    /\ fails' = r.fails /\ lastFail' = r.lastFail
    /\ connects' = r.connects /\ written' = r.written
    /\ afterDrop' = r.afterDrop
    /\ opLocked' = r.opLocked /\ opOwner' = r.opOwner
    /\ opWaiters' = r.opWaiters
    /\ connLocked' = r.connLocked /\ connOwner' = r.connOwner
    /\ connWaiters' = r.connWaiters
    /\ client' = r.client /\ readChar' = r.readChar
    /\ writeChar' = r.writeChar /\ timer' = r.timer
    /\ timerBehind' = r.timerBehind
    /\ expected' = r.expected /\ lclient' = r.lclient
    /\ dclient' = r.dclient /\ timedNew' = r.timedNew /\ tpc' = r.tpc
    /\ cbError' = r.cbError /\ rearmed' = r.rearmed
    /\ armedIn' = r.armedIn /\ spared' = r.spared
    /\ subscribed' = r.subscribed
    /\ UNCHANGED <<dvars, pvars>>

\* Exception classes: BleakDBusError and BleakNotFoundError are BleakErrors;
\* BLEAK_RETRY_EXCEPTIONS holds BleakError and the non-bleak I/O errors
\* (TimeoutError stands for asyncio.TimeoutError, EOFError, BrokenPipeError).
BleakErrors == {"BleakError", "BleakDBusError", "BleakNotFoundError"}
BLEAK_RETRY_EXCEPTIONS == BleakErrors \cup {"TimeoutError"}

\* The keys the status mapping of a device is read and written under.
Keys == {"temps", "switches", "diag1", "diag2", "FaultCodes", "AllSwitches"}

\* A mapping with no key: every key is absent (<<>>).
EmptyMap == [k \in Keys |-> <<>>]

\* The poll (get_info) as an operation.
Poll == [ix |-> 0, val |-> 0]

\* self.status_data = {} and no operation started.
DataInit ==
    /\ status_data = [has |-> FALSE, m |-> EmptyMap]
    /\ linked = FALSE
    /\ opc = "idle" /\ op = Poll /\ key = <<>>
    /\ opResult = "none" /\ sent = <<>>
    /\ latest = [k \in Keys |-> <<>>]
    /\ noted = FALSE /\ again = FALSE
    /\ prev = [res |-> "none", sent |-> <<>>]

SessionInit ==
    /\ ready = <<>>
    /\ pc = [t \in Tasks |-> "idle"]
    /\ attempt = [t \in Tasks |-> 0]
    /\ retry = [t \in Tasks |-> 0]
    /\ cmd = [t \in Tasks |-> FALSE]
    /\ exc = [t \in Tasks |-> "none"]
    /\ result = [t \in Tasks |-> "none"]
    /\ fails = [t \in Tasks |-> 0]
    /\ lastFail = [t \in Tasks |-> "none"]
    /\ connects = [t \in Tasks |-> 0]
    /\ written = [t \in Tasks |-> 0]
    /\ afterDrop = [t \in Tasks |-> FALSE]
    /\ opLocked = FALSE /\ opOwner = NoOne /\ opWaiters = <<>>
    /\ connLocked = FALSE /\ connOwner = NoOne /\ connWaiters = <<>>
    /\ client = "None" /\ readChar = FALSE /\ writeChar = FALSE
    /\ timer = "None" /\ expected = FALSE
    /\ timerBehind = 0
    /\ lclient = "None" /\ dclient = "None"
    /\ timedNew = 0 /\ tpc = "none"
    /\ cbError = FALSE /\ rearmed = FALSE
    /\ armedIn = NoOne /\ spared = FALSE /\ subscribed = FALSE

\* No time payload has been asked for.
TimeIdle ==
    /\ value = [ts |-> 0, aware |-> FALSE, off |-> 0]
    /\ payload = <<>>
    /\ tlog = {}

\* No response is being checked.
CheckIdle ==
    /\ response = [none |-> TRUE, bytes |-> <<>>, index |-> 0, values |-> {}]
    /\ checked = "none"

\* No frame is being decoded.
DecodeIdle ==
    /\ frame = <<>>
    /\ decoded = [done |-> FALSE, ok |-> FALSE, frag |-> EmptyMap]

\* The pyubersolar variant at rest, with every switch off in the cached
\* buffer and on the device.
PyIdle ==
    /\ pybuf = <<2, 0, 0, 0, 0>>
    /\ pydev = <<0, 0, 0, 0>>
    /\ pyop = "idle" /\ pykey = <<>> /\ pysent = <<>>
    /\ pyprior = pybuf

\* The callbacks that callers subscribe: two that only take note, and one
\* that unsubscribes itself when it is invoked.
Callbacks == {"cb1", "cb2", "once"}

\* No callback is subscribed and no update has been made:
\* self._last_full_update = -POLL_INTERVAL.
UpdateIdle ==
    /\ callbacks = <<>>
    /\ now = 0
    /\ last_full = -60
    /\ upc = "idle" /\ upResult = "none"
    /\ firedLast = [c \in Callbacks |-> 0]

Init ==
    /\ SessionInit /\ DataInit /\ TimeIdle /\ CheckIdle /\ DecodeIdle
    /\ PyIdle /\ UpdateIdle

----------------------------------------------------------------------------
(* asyncio.Lock *)

\* acquire() returns at once, without suspending, iff the lock is unlocked
\* and nobody waits for it; otherwise the caller queues (FIFO).
LockFree(locked, waiters) == ~locked /\ waiters = <<>>

\* release() unlocks and wakes the first waiter: the waiter becomes ready,
\* and takes the lock when the loop resumes it, so locked() is False in
\* between.
Wake(queue, waiters) ==
    IF waiters = <<>> THEN queue ELSE Append(queue, Head(waiters))

ReleaseOp(s) ==
    [s EXCEPT !.opLocked = FALSE, !.opOwner = NoOne,
              !.ready = Wake(@, s.opWaiters)]

ReleaseConn(s) ==
    [s EXCEPT !.connLocked = FALSE, !.connOwner = NoOne,
              !.ready = Wake(@, s.connWaiters)]

\* The handle at the head of the ready queue is h; Pop takes it off.
Runs(h) == ready # <<>> /\ Head(ready) = h

Pop(s) ==
    [s EXCEPT !.ready = Tail(@),
              !.timerBehind = IF @ > 0 THEN @ - 1 ELSE 0]

InQueue(h) == \E i \in 1..Len(ready) : ready[i] = h

----------------------------------------------------------------------------
(* Timer helpers *)

\* A cancelled handle that is already in the ready queue is not run.
_cancel_disconnect_timer(s) ==
    [s EXCEPT !.timer = "None", !.timerBehind = 0, !.armedIn = NoOne,
              !.spared = FALSE,
              !.ready = SelectSeq(@, LAMBDA h : h # "timer")]

\* call_later(DISCONNECT_DELAY, ...): the handles that are ready now run
\* within this turn of the loop, long before the delay is over.
_reset_disconnect_timer(s) ==
    LET s1 == _cancel_disconnect_timer(s)
    IN  [s1 EXCEPT !.timer = "Armed", !.expected = FALSE,
                   !.timerBehind = Len(s1.ready), !.armedIn = s.opOwner]

\* The disconnected callback given to establish_connection: it logs at
\* debug level when the disconnect was expected and a warning otherwise, and
\* changes nothing of the session.
_disconnected(s) == s

----------------------------------------------------------------------------
(* The dispatcher *)

\* _send_command returns (res = "ok") or raises (res = the exception):
\* leaving "async with self._operation_lock" releases the lock.  The locals
\* of the call are gone; the record of the failures of a send is kept only
\* when the send raised, and whether its command was empty only when it
\* returned.
Return(s, t, res) ==
    [ReleaseOp(s) EXCEPT !.pc[t] = "idle", !.result[t] = res,
                         !.cmd[t] = IF res = "ok" THEN @ ELSE FALSE,
                         !.attempt[t] = 0,
                         !.retry[t] = IF res = "ok" THEN 0 ELSE @,
                         !.fails[t] = IF res = "ok" THEN 0 ELSE @,
                         !.lastFail[t] = IF res = "ok" THEN "none" ELSE @,
                         !.connects[t] = 0, !.afterDrop[t] = FALSE,
                         !.rearmed = FALSE, !.spared = FALSE]

\* _execute_command_locked up to the await of write_gatt_char.
_execute_command_locked(s, t) ==
    IF s.client = "None" \/ ~s.readChar \/ ~s.writeChar
    THEN Return(s, t, "AssertionError")
    ELSE [s EXCEPT !.pc[t] = "write"]

\* Mutation: the command is not written after the connection check.
AfterEnsureSkipsWrite(s, t) == Return(s, t, "ok")

\* _send_command_locked after _ensure_connected has returned.
AfterEnsure(s, t) ==
    IF s.cmd[t] THEN _execute_command_locked(s, t) ELSE Return(s, t, "ok")

\* Mutation: only the handle is tested, not its is_connected flag.
IsConnectedHandleOnly(c) == c # "None"

\* "self._client and self._client.is_connected"
IsConnected(c) == c = "Up"

\* Mutation: the fast path returns without resetting the disconnect timer.
_ensure_connected_keeps_timer(s, t) ==
    IF IsConnected(s.client)
    THEN AfterEnsure(s, t)
    ELSE IF LockFree(s.connLocked, s.connWaiters)
         THEN [s EXCEPT !.connLocked = TRUE, !.connOwner = t,
                        !.pc[t] = "connect"]
         ELSE [s EXCEPT !.connWaiters = Append(@, t),
                        !.pc[t] = "wait_connect"]

\* _ensure_connected up to its first suspension.
_ensure_connected(s, t) ==
    IF IsConnected(s.client)
    THEN AfterEnsure(_reset_disconnect_timer(s), t)
    ELSE IF LockFree(s.connLocked, s.connWaiters)
         THEN [s EXCEPT !.connLocked = TRUE, !.connOwner = t,
                        !.pc[t] = "connect"]
         ELSE [s EXCEPT !.connWaiters = Append(@, t),
                        !.pc[t] = "wait_connect"]

\* One attempt of the retry loop, up to its first suspension.
_send_command_locked(s, t) == _ensure_connected(s, t)

\* Mutation: the BleakNotFoundError clause is missing (or placed after the
\* BLEAK_RETRY_EXCEPTIONS clause, which also matches that exception).
IsNotFoundNever(e) == FALSE

\* "except BleakNotFoundError" comes first in the retry loop.
IsNotFound(e) == e = "BleakNotFoundError"

\* Mutation: the last attempt is taken to be the one before the limit.
LastAttemptOffByOne(a, r) == a + 1 >= r

\* "if attempt == retry" in the except clauses.
LastAttempt(a, r) == a = r

\* The except clauses of the retry loop in _send_command, and the next
\* iteration of the loop when the failure is swallowed.
RetryLoop(s, t, e) ==
    LET s1 == [s EXCEPT !.fails[t] = @ + 1, !.lastFail[t] = e,
                        !.exc[t] = "none"]
    IN  IF IsNotFound(e)
        THEN Return(s1, t, e)
        ELSE IF e = "CharacteristicMissingError" \/ e \in BLEAK_RETRY_EXCEPTIONS
             THEN IF LastAttempt(s.attempt[t], s.retry[t])
                  THEN Return(s1, t, e)
                  ELSE _send_command_locked(
                           [s1 EXCEPT !.attempt[t] = @ + 1], t)
             ELSE Return(s1, t, e)

\* Entering "async with self._operation_lock" with the lock granted.
\* "for attempt in range(max_attempts)" with max_attempts = retry + 1: the
\* range is empty when the limit is below zero, the lock is left at once and
\* the statement after it raises RuntimeError("Unreachable").
Begin(s, t) ==
    LET s1 == [s EXCEPT !.opLocked = TRUE, !.opOwner = t, !.attempt[t] = 0,
                        !.afterDrop[t] = (s.client = "Down")]
    IN  IF s.retry[t] + 1 <= 0
        THEN Return(s1, t, "RuntimeError")
        ELSE _send_command_locked(s1, t)

----------------------------------------------------------------------------
(* Disconnecting *)

\* _execute_disconnect has left "async with self._connect_lock".  A timed
\* task ends; a forced disconnect returns to its caller, which re-raises the
\* exception it was handling.
AfterDisconnect(s, who) ==
    LET s1 == ReleaseConn(s)
    IN  IF who = Timed
        THEN [s1 EXCEPT !.tpc = "none"]
        ELSE RetryLoop(s1, who, s.exc[who])

\* Mutation: the handle and the references are cleared and the lock is
\* released, but client.disconnect() is not called.
_execute_disconnect_no_close(s, who) ==
    IF s.timer # "None"
    THEN AfterDisconnect(s, who)
    ELSE AfterDisconnect(
             [s EXCEPT !.expected = TRUE, !.client = "None",
                       !.readChar = FALSE, !.writeChar = FALSE,
                       !.dclient = IF s.client = "Up" THEN "Up" ELSE @], who)

\* Mutation: the timer is not looked at ("if self._disconnect_timer:
\* return" is missing).
_execute_disconnect_ignores_timer(s, who) ==
    LET s1 == [s EXCEPT !.expected = TRUE, !.client = "None",
                        !.readChar = FALSE, !.writeChar = FALSE]
    IN  IF IsConnected(s.client)
        THEN IF who = Timed
             THEN [s1 EXCEPT !.dclient = "Up", !.tpc = "disc"]
             ELSE [s1 EXCEPT !.dclient = "Up", !.pc[who] = "fd_disc"]
        ELSE AfterDisconnect(s1, who)

\* The body of _execute_disconnect, entered with the connect lock held by
\* who, up to the await of client.disconnect().
_execute_disconnect(s, who) ==
    IF s.timer # "None"
    THEN AfterDisconnect([s EXCEPT !.spared = (who = Timed) \/ @], who)
    ELSE LET s1 == [s EXCEPT !.expected = TRUE, !.client = "None",
                             !.readChar = FALSE, !.writeChar = FALSE,
                             !.subscribed = FALSE]
         IN  IF IsConnected(s.client)
             THEN IF who = Timed
                  THEN [s1 EXCEPT !.dclient = "Up", !.tpc = "disc"]
                  ELSE [s1 EXCEPT !.dclient = "Up", !.pc[who] = "fd_disc"]
             ELSE AfterDisconnect(s1, who)

\* Mutation: _execute_disconnect runs its body without taking the connect
\* lock.
AcquireForDisconnectUnlocked(s, who) ==
    _execute_disconnect(s, who)

\* "async with self._connect_lock" of _execute_disconnect.
AcquireForDisconnect(s, who) ==
    IF LockFree(s.connLocked, s.connWaiters)
    THEN _execute_disconnect(
             [s EXCEPT !.connLocked = TRUE, !.connOwner = who], who)
    ELSE IF who = Timed
         THEN [s EXCEPT !.connWaiters = Append(@, who)]
         ELSE [s EXCEPT !.connWaiters = Append(@, who),
                        !.pc[who] = "fd_wait"]

\* Mutation: the forced disconnect does not cancel the idle timer first.
_execute_forced_disconnect_keeps_timer(s, t, e) ==
    AcquireForDisconnect([s EXCEPT !.exc[t] = e], t)

\* _execute_forced_disconnect, called while handling exception e.
_execute_forced_disconnect(s, t, e) ==
    AcquireForDisconnect(
        [_cancel_disconnect_timer(s) EXCEPT !.exc[t] = e], t)

----------------------------------------------------------------------------
(* Actions of a caller task *)

\* Mutation: the dispatch body is entered without taking the operation lock.
SendUnguarded(t) ==
    /\ pc[t] = "idle"
    /\ \E r \in 0..MaxRetry, c \in BOOLEAN :
         Apply(Begin([S EXCEPT !.retry[t] = r, !.cmd[t] = c,
                               !.attempt[t] = 0, !.fails[t] = 0,
                             !.lastFail[t] = "none",
                               !.result[t] = "none", !.exc[t] = "none",
                               !.connects[t] = 0, !.written[t] = 0,
                             !.afterDrop[t] = FALSE], t))

\* A caller calls _send_command(key, retry).
Send(t) ==
    /\ pc[t] = "idle"
    /\ \E r \in 0..MaxRetry, c \in BOOLEAN :
         LET s0 == [S EXCEPT !.retry[t] = r, !.cmd[t] = c,
                             !.attempt[t] = 0, !.fails[t] = 0,
                             !.lastFail[t] = "none",
                             !.result[t] = "none", !.exc[t] = "none",
                             !.connects[t] = 0, !.written[t] = 0,
                             !.afterDrop[t] = FALSE]
         IN  IF LockFree(opLocked, opWaiters)
             THEN Apply(Begin(s0, t))
             ELSE Apply([s0 EXCEPT !.opWaiters = Append(@, t),
                                   !.pc[t] = "wait_op"])

\* The first waiter of the operation lock is resumed.
OpLockGranted(t) ==
    /\ pc[t] = "wait_op"
    /\ Runs(t)
    /\ Apply(Begin([Pop(S) EXCEPT !.opWaiters = Tail(@)], t))

\* The first waiter of the connect lock is resumed: a caller in
\* _ensure_connected (which checks the connection again), a caller in a
\* forced disconnect, or a timed-disconnect task.
ConnLockGranted ==
    /\ ~connLocked
    /\ connWaiters # <<>>
    /\ Runs(Head(connWaiters))
    /\ LET who == Head(connWaiters)
           s0 == [Pop(S) EXCEPT !.connWaiters = Tail(@), !.connLocked = TRUE,
                                !.connOwner = who]
       IN  IF who = Timed
           THEN Apply(_execute_disconnect(s0, who))
           ELSE IF pc[who] = "wait_connect"
                THEN IF IsConnected(client)
                     THEN Apply(AfterEnsure(
                              ReleaseConn(_reset_disconnect_timer(s0)), who))
                     ELSE Apply([s0 EXCEPT !.pc[who] = "connect"])
                ELSE Apply(_execute_disconnect(s0, who))

\* establish_connection returns a connected client or raises;
\* _resolve_characteristics then finds both characteristics or misses one.
ConnectDone(t) ==
    /\ pc[t] = "connect"
    /\ Runs(t)
    /\ \/ Apply([_reset_disconnect_timer(Pop(S)) EXCEPT
                    !.client = "Up", !.readChar = TRUE, !.writeChar = TRUE,
                    !.subscribed = FALSE,
                    !.connects[t] = @ + 1, !.pc[t] = "start_notify"])
       \/ \E haveRead \in BOOLEAN :
            Apply([Pop(S) EXCEPT !.readChar = haveRead,
                            !.writeChar = IF haveRead THEN FALSE ELSE @,
                            !.lclient = "Up", !.connects[t] = @ + 1,
                            !.pc[t] = "clear_cache"])
       \/ \E e \in {"BleakNotFoundError", "BleakError"} :
            Apply(RetryLoop(ReleaseConn(Pop(S)), t, e))

\* client.clear_cache() returns.
ClearCacheDone(t) ==
    /\ pc[t] = "clear_cache"
    /\ Runs(t)
    /\ Apply(_execute_forced_disconnect(
           Pop(S), t, "CharacteristicMissingError"))

\* start_notify returns or raises.
StartNotifyDone(t) ==
    /\ pc[t] = "start_notify"
    /\ Runs(t)
    /\ \/ /\ IsConnected(client)
          /\ Apply([Pop(S) EXCEPT !.pc[t] = "settle"])
       \/ Apply(RetryLoop(ReleaseConn(Pop(S)), t, "BleakError"))

\* asyncio.sleep(3) of _start_notify is over.
SettleDone(t) ==
    /\ pc[t] = "settle"
    /\ Runs(t)
    /\ Apply(AfterEnsure(
           ReleaseConn([Pop(S) EXCEPT !.subscribed = (client # "None")]), t))

\* The link the pending write goes over is up: the client object is the one
\* self._client held when the write began.
WriterLinkUp ==
    IF client # "None" THEN client = "Up" ELSE dclient = "Up"

\* write_gatt_char returns or raises.
WriteDone(t) ==
    /\ pc[t] = "write"
    /\ Runs(t)
    /\ \/ /\ WriterLinkUp
          /\ Apply(Return([Pop(S) EXCEPT !.written[t] = @ + 1], t, "ok"))
       \/ Apply([Pop(S) EXCEPT !.pc[t] = "backoff",
                               !.exc[t] = "BleakDBusError"])
       \/ Apply(_execute_forced_disconnect(Pop(S), t, "BleakError"))
       \/ Apply(RetryLoop(Pop(S), t, "TimeoutError"))

\* asyncio.sleep(0.25) after a BleakDBusError is over.
BackoffDone(t) ==
    /\ pc[t] = "backoff"
    /\ Runs(t)
    /\ Apply(_execute_forced_disconnect(Pop(S), t, "BleakDBusError"))

\* client.disconnect() of a forced disconnect returns.
ForcedDisconnectDone(t) ==
    /\ pc[t] = "fd_disc"
    /\ Runs(t)
    /\ Apply(AfterDisconnect(
           [(IF dclient = "Up" THEN _disconnected(Pop(S)) ELSE Pop(S))
               EXCEPT !.dclient = "None"], t))

----------------------------------------------------------------------------
(* The idle timer and the timed-disconnect tasks *)

TimedAlive ==
    timedNew + Len(SelectSeq(connWaiters, LAMBDA w : w = Timed))
             + (IF connOwner = Timed THEN 1 ELSE 0)
             + (IF timer = "Due" THEN 1 ELSE 0)

\* Mutation: the timer callback never rearms.
RearmNever(locked, c) == FALSE

\* Mutation: the timer callback rearms whenever it runs.
RearmAlways(locked, c) == TRUE

\* The condition on which the timer callback rearms instead of disconnecting.
RearmOnFire(locked, c) == locked /\ IsConnected(c)

\* The delay of the idle timer is over: its callback becomes ready, after
\* every handle that was ready when the timer was armed has run.  A new
\* timed-disconnect task can be created only while fewer than MaxTimed are
\* alive.
TimerDue ==
    /\ timer = "Armed"
    /\ timerBehind = 0
    /\ TimedAlive < MaxTimed
    /\ Apply([S EXCEPT !.timer = "Due", !.ready = Append(@, "timer")])

\* The loop runs _disconnect_from_timer.
_disconnect_from_timer ==
    /\ Runs("timer")
    /\ IF opLocked /\ client = "None"
       THEN Apply([Pop(S) EXCEPT !.timer = "Spent", !.cbError = TRUE])
       ELSE IF RearmOnFire(opLocked, client)
            THEN Apply([_reset_disconnect_timer(Pop(S)) EXCEPT
                           !.rearmed = TRUE])
            ELSE Apply([_cancel_disconnect_timer(Pop(S)) EXCEPT
                           !.timedNew = @ + 1,
                           !.ready = Append(@, "Tnew")])

\* A task created by the timer callback starts _execute_timed_disconnect.
_execute_timed_disconnect ==
    /\ Runs("Tnew")
    /\ Apply(AcquireForDisconnect([Pop(S) EXCEPT !.timedNew = @ - 1], Timed))

\* client.disconnect() of a timed disconnect returns.
TimedDisconnectDone ==
    /\ tpc = "disc"
    /\ Runs(Timed)
    /\ Apply(AfterDisconnect(
           [(IF dclient = "Up" THEN _disconnected(Pop(S)) ELSE Pop(S))
               EXCEPT !.dclient = "None"], Timed))

----------------------------------------------------------------------------
(* The transport *)

\* The suspension points at which a caller awaits the transport or a sleep.
Awaiting ==
    {"connect", "clear_cache", "start_notify", "settle", "write", "backoff",
     "fd_disc"}

\* The primitive or sleep a caller awaits completes: the caller becomes
\* ready.  How it completed is decided when the caller is resumed.
Complete(t) ==
    /\ pc[t] \in Awaiting
    /\ ~InQueue(t)
    /\ Apply([S EXCEPT !.ready = Append(@, t)])

\* The client.disconnect() a timed-disconnect task awaits completes.
TimedComplete ==
    /\ tpc = "disc"
    /\ ~InQueue(Timed)
    /\ Apply([S EXCEPT !.ready = Append(@, Timed)])

\* The peripheral or the stack drops a link; the disconnected callback runs.
TransportDrop ==
    \/ /\ client = "Up"
       /\ Apply([_disconnected(S) EXCEPT !.client = "Down"])
    \/ /\ lclient = "Up"
       /\ Apply([_disconnected(S) EXCEPT !.lclient = "Down"])
    \/ /\ dclient = "Up"
       /\ Apply([_disconnected(S) EXCEPT !.dclient = "Down"])

----------------------------------------------------------------------------

TaskStep(t) ==
    \/ OpLockGranted(t)
    \/ ConnectDone(t)
    \/ ClearCacheDone(t)
    \/ StartNotifyDone(t)
    \/ SettleDone(t)
    \/ WriteDone(t)
    \/ BackoffDone(t)
    \/ ForcedDisconnectDone(t)

\* The loop runs the handle at the head of the ready queue.
RunHead ==
    \/ \E t \in Tasks : TaskStep(t)
    \/ ConnLockGranted
    \/ _disconnect_from_timer
    \/ _execute_timed_disconnect
    \/ TimedDisconnectDone

Next ==
    \/ \E t \in Tasks : Send(t)
    \/ \E t \in Tasks : Complete(t)
    \/ TimedComplete
    \/ TimerDue
    \/ RunHead
    \/ TransportDrop

Spec == Init /\ [][Next]_vars

\* The retry limits a caller can pass: retry_count and retry are plain ints
\* that nothing validates.
RetryLimits == (0 - 1)..MaxRetry

\* A caller calls _send_command(key, retry) with any of these limits.
SendAnyLimit(t) ==
    /\ pc[t] = "idle"
    /\ \E r \in RetryLimits, c \in BOOLEAN :
         LET s0 == [S EXCEPT !.retry[t] = r, !.cmd[t] = c,
                             !.attempt[t] = 0, !.fails[t] = 0,
                             !.lastFail[t] = "none",
                             !.result[t] = "none", !.exc[t] = "none",
                             !.connects[t] = 0, !.written[t] = 0,
                             !.afterDrop[t] = FALSE]
         IN  IF LockFree(opLocked, opWaiters)
             THEN Apply(Begin(s0, t))
             ELSE Apply([s0 EXCEPT !.opWaiters = Append(@, t),
                                   !.pc[t] = "wait_op"])

RetryNext ==
    \/ \E t \in Tasks : SendAnyLimit(t)
    \/ \E t \in Tasks : Complete(t)
    \/ TimedComplete
    \/ TimerDue
    \/ RunHead
    \/ TransportDrop

RetrySpec == Init /\ [][RetryNext]_vars

\* The event loop runs every ready handle and every transport primitive
\* and sleep completes; when a caller calls, when the timer is due and when
\* the transport drops a link is not constrained.
FairSpec ==
    /\ Spec
    /\ WF_vars(RunHead)
    /\ \A t \in Tasks : WF_vars(Complete(t))
    /\ WF_vars(TimedComplete)

\* The session with a single caller: the steps the loop runs for it (the
\* operation lock is never contended), for the timer and for the timed
\* tasks.
Caller == "t1"

IdleRunHead ==
    \/ ConnectDone(Caller)
    \/ ClearCacheDone(Caller)
    \/ StartNotifyDone(Caller)
    \/ SettleDone(Caller)
    \/ WriteDone(Caller)
    \/ BackoffDone(Caller)
    \/ ForcedDisconnectDone(Caller)
    \/ ConnLockGranted
    \/ _disconnect_from_timer
    \/ _execute_timed_disconnect
    \/ TimedDisconnectDone

IdleNext ==
    \/ Send(Caller)
    \/ Complete(Caller)
    \/ TimedComplete
    \/ TimerDue
    \/ IdleRunHead
    \/ TransportDrop

\* The event loop runs every ready handle, every transport primitive and
\* sleep completes, and the delay of an armed timer (loop.call_later with
\* DISCONNECT_DELAY) runs out unless the timer is cancelled first; when the
\* caller calls and when the transport drops a link is not constrained.
IdleSpec ==
    /\ Init /\ [][IdleNext]_vars
    /\ WF_vars(IdleRunHead)
    /\ WF_vars(Complete(Caller))
    /\ WF_vars(TimedComplete)
    /\ WF_vars(TimerDue)

----------------------------------------------------------------------------
(* The notification decoder (ubersolar/adv_parsers/ubersmart.py) *)

\* Largest value of a switch byte in the frames the peripheral sends.
MaxSwitch == 1

\* A frame is the sequence of its bytes; data[i] of the source is f[i + 1].
\* data[i:i+n]: a slice is cut short at the end of the frame.
Slice(f, i, n) == SubSeq(f, i + 1, IF i + n <= Len(f) THEN i + n ELSE Len(f))

\* The value of a little-endian byte string.
RECURSIVE LE(_)
LE(b) == IF b = <<>> THEN 0 ELSE Head(b) + 256 * LE(Tail(b))

\* struct.unpack("<h", ...): two's complement on 16 bits.
I16(b) == IF LE(b) >= 32768 THEN LE(b) - 65536 ELSE LE(b)

\* struct.unpack("<f", ...): the float is represented by its 32-bit pattern.
F32(b) == LE(b)

\* The frame length each tag's branch reads up to; a shorter frame makes the
\* branch raise (IndexError or struct.error).
Needs(tag) ==
    CASE tag = 1 -> 13 [] tag = 2 -> 9 [] tag = 3 -> 15 [] tag = 4 -> 19
      [] tag = 5 -> 5 [] OTHER -> 1

\* datetime.fromtimestamp raises for a time beyond the year 9999: any of
\* the three high bytes of the u64 set.
TimeInRange(f) == \A i \in 6..8 : f[i + 1] = 0

\* The fragment a frame decodes to: the keys it carries with their values
\* (<<>> for a key it does not carry), or ok = FALSE when decoding raises.
Fragment(k, v) == [ok |-> TRUE, frag |-> [EmptyMap EXCEPT ![k] = v]]

process_ubersmart(f) ==
    IF Len(f) = 0 \/ Len(f) < Needs(f[1]) \/ (f[1] = 3 /\ ~TimeInRange(f))
    THEN [ok |-> FALSE, frag |-> EmptyMap]
    ELSE CASE f[1] = 1 ->
                Fragment("temps", <<F32(Slice(f, 1, 4)), F32(Slice(f, 5, 4)),
                                    F32(Slice(f, 9, 4))>>)
           [] f[1] = 2 ->
                Fragment("switches", <<f[2], f[3], f[4], f[5],
                                       F32(Slice(f, 5, 4))>>)
           [] f[1] = 3 ->
                Fragment("diag1", <<LE(Slice(f, 1, 8)), F32(Slice(f, 9, 4)),
                                    LE(Slice(f, 13, 2))>>)
           [] f[1] = 4 ->
                Fragment("diag2", <<I16(Slice(f, 1, 2)), F32(Slice(f, 3, 4)),
                                    F32(Slice(f, 7, 4)), F32(Slice(f, 11, 4)),
                                    F32(Slice(f, 15, 4))>>)
           [] f[1] = 5 ->
                Fragment("FaultCodes", <<LE(Slice(f, 1, 1)), LE(Slice(f, 2, 1)),
                                         LE(Slice(f, 3, 1)), LE(Slice(f, 4, 1))>>)
           [] OTHER -> [ok |-> TRUE, frag |-> EmptyMap]

\* n zero bytes.
Zeros(n) == [i \in 1..n |-> 0]

\* The frames the peripheral sends in the model: every tag with a few
\* payloads, unknown tags, a frame cut short, an empty frame, and a tag-3
\* frame whose time is out of range.
Frames ==
    {<<1, a, 0, 0, 0, 1, 0, 0, 0>> \o Zeros(4) : a \in 0..1}
    \cup {<<2, e, p, 0, sl>> \o Zeros(4) : e, p \in 0..MaxSwitch, sl \in {0, 2}}
    \cup {<<3, a>> \o Zeros(11) \o <<a, 1>> : a \in 0..1}
    \cup {<<3>> \o Zeros(7) \o <<1>> \o Zeros(6)}
    \cup {<<4, a, m>> \o Zeros(16) : a \in {1}, m \in {0, 255}}
    \cup {<<5, a, 0, a, 1>> : a \in 0..1}
    \cup {<<0, 1, 1, 1, 1>>, <<6, 1, 1, 1, 1>>, <<2, 1>>, <<>>}

----------------------------------------------------------------------------
(* The status mapping and the operations on it *)

\* The single-switch operations: byte ix of the switch buffer is set to val
\* (element 1, pump 2, holiday 3 on/off; solenoid 4 off/on/auto).
SwitchOps ==
    {[ix |-> i, val |-> v] : i \in 1..3, v \in 0..1}
        \cup {[ix |-> 4, val |-> v] : v \in 0..2}

\* dict.update: the keys of the fragment overwrite, the others stay.
Merge(m, frag) == [k \in Keys |-> IF frag[k] # <<>> THEN frag[k] ELSE m[k]]

\* Mutation: the mapping is replaced by the fragment.
_notification_handler_replaces(f) ==
    /\ linked /\ status_data.has
    /\ LET d == process_ubersmart(f)
       IN  /\ status_data' =
                  IF d.ok THEN [status_data EXCEPT !.m = d.frag] ELSE status_data
           /\ latest' = IF d.ok
                        THEN [k \in Keys |->
                                 IF d.frag[k] # <<>> THEN f ELSE latest[k]]
                        ELSE latest
    /\ noted' = TRUE
    /\ UNCHANGED <<svars, pvars, linked, opc, op, key, opResult, sent, again, prev>>

\* A notification arrives; when the decoder raises nothing is merged.
_notification_handler(f) ==
    /\ linked /\ status_data.has
    /\ LET d == process_ubersmart(f)
       IN  /\ status_data' =
                  IF d.ok THEN [status_data EXCEPT !.m = Merge(@, d.frag)]
                  ELSE status_data
           /\ latest' = IF d.ok
                        THEN [k \in Keys |->
                                 IF d.frag[k] # <<>> THEN f ELSE latest[k]]
                        ELSE latest
    /\ noted' = TRUE
    /\ UNCHANGED <<svars, pvars, linked, opc, op, key, opResult, sent, again, prev>>

\* The _send_command an operation awaits finds no link and connects:
\* _start_notify stores a new, empty mapping under the device address and
\* subscribes.
_start_notify ==
    /\ opc \in {"update", "send"}
    /\ ~linked
    /\ status_data' = [has |-> TRUE, m |-> EmptyMap]
    /\ latest' = [k \in Keys |-> <<>>]
    /\ linked' = TRUE
    /\ UNCHANGED <<svars, pvars, opc, op, key, opResult, sent, noted, again, prev>>

\* The rest of a single-switch operation from the lookup of the cached
\* buffer on: the bytearray stored in the mapping is changed in place and
\* its hex string is passed to _send_command.
Build(o) ==
    LET buf == status_data.m["AllSwitches"]
    IN  IF ~status_data.has \/ buf = <<>>
        THEN /\ opResult' = "KeyError" /\ opc' = "idle"
             /\ UNCHANGED <<status_data, key>>
        ELSE IF Len(buf) <= o.ix
             THEN /\ opResult' = "IndexError" /\ opc' = "idle"
                  /\ UNCHANGED <<status_data, key>>
             ELSE LET new == [buf EXCEPT ![1] = 6, ![o.ix + 1] = o.val]
                  IN  /\ status_data' =
                             [status_data EXCEPT !.m["AllSwitches"] = new]
                      /\ key' = new
                      /\ opc' = "send"
                      /\ opResult' = "none"

\* A caller starts get_info (Poll) or a single-switch operation, which
\* first calls update() when self.status_data is empty.
Invoke(o) ==
    /\ opc = "idle"
    /\ op' = o /\ sent' = <<>>
    /\ noted' = FALSE
    /\ again' = (o \in SwitchOps /\ o = op /\ opResult # "none" /\ ~noted)
    /\ prev' = IF again' THEN [res |-> opResult, sent |-> sent]
                ELSE [res |-> "none", sent |-> <<>>]
    /\ IF o = Poll \/ ~status_data.has
       THEN /\ opc' = "update" /\ opResult' = "none" /\ key' = <<>>
            /\ UNCHANGED status_data
       ELSE Build(o)
    /\ UNCHANGED <<svars, pvars, linked, latest>>

\* The awaited _send_command returns: the poll of get_info or update() is
\* over, or the command of the operation has been written.
SendReturns ==
    /\ opc \in {"update", "send"}
    /\ linked
    /\ IF opc = "send"
       THEN /\ sent' = key /\ opResult' = "ok" /\ opc' = "idle"
            /\ UNCHANGED <<status_data, key>>
       ELSE IF op = Poll
            THEN /\ opResult' = "ok" /\ opc' = "idle"
                 /\ UNCHANGED <<status_data, key, sent>>
            ELSE Build(op) /\ UNCHANGED sent
    /\ UNCHANGED <<svars, pvars, linked, op, latest, noted, again, prev>>

\* The awaited _send_command raises.
SendRaises ==
    /\ opc \in {"update", "send"}
    /\ opResult' = "BleakError" /\ opc' = "idle"
    /\ UNCHANGED <<svars, pvars, status_data, linked, op, key, sent, latest, noted,
                   again, prev>>

\* The link goes down: idle disconnect, forced disconnect or the transport.
DropLink ==
    /\ linked
    /\ linked' = FALSE
    /\ UNCHANGED <<svars, pvars, status_data, opc, op, key, opResult, sent, latest,
                   noted, again, prev>>

DataNext ==
    \/ \E o \in SwitchOps \cup {Poll} : Invoke(o)
    \/ \E f \in Frames : _notification_handler(f)
    \/ _start_notify
    \/ SendReturns
    \/ SendRaises
    \/ DropLink

DataSpec == Init /\ [][DataNext]_vars

-----------------------------------------------------------------------------
(* The time payload (pyubersolar/devices/ubersmart.py) *)

\* The largest whole number of hours of an offset tried, on either side of
\* zero.
MaxHours == 129

\* The seconds past the whole hour of the offsets tried.
Rems == {0, 1800, 3599}

\* What value.utcoffset() can return, in seconds. A tzinfo of the standard
\* library keeps within a day of zero; a datetime subclass that overrides
\* utcoffset() is not held to that.
Offsets == {sg * (h * 3600 + r) : sg \in {-1, 1}, h \in 0..MaxHours, r \in Rems}

\* The instants tried: the epoch, a second before it, and 2024-01-01.
Stamps == {-1, 0, 1704067200}

\* The datetimes tried: a naive one has no offset of its own.
TimeValues ==
    {[ts |-> t, aware |-> TRUE, off |-> o] : t \in Stamps, o \in Offsets}
        \cup {[ts |-> t, aware |-> FALSE, off |-> 0] : t \in Stamps}

\* int(x / y) for y > 0 is the quotient rounded toward zero; the floor
\* would differ from it for a negative x that y does not divide.
FloorDiv(a, b) == a \div b
TruncDiv(a, b) == IF a >= 0 THEN a \div b ELSE -((-a) \div b)

\* max(-128, min(127, offset_hours)), and the value left as it is.
ClampNone(h) == h
Clamp(h) == IF h < -128 THEN -128 ELSE IF h > 127 THEN 127 ELSE h

\* The n low bytes of x >= 0, least significant first.
RECURSIVE Bytes(_, _)
Bytes(x, n) == IF n = 0 THEN <<>> ELSE <<x % 256>> \o Bytes(x \div 256, n - 1)

\* A byte read as a signed 8-bit value.
S8(b) == IF b >= 128 THEN b - 256 ELSE b

\* The offset in whole hours that ends up in the payload.
offset_hours(v) ==
    LET offset_seconds == IF v.aware THEN v.off ELSE 0
    IN  Clamp(TruncDiv(offset_seconds, 3600))

\* The warnings of _build_time_payload.
TimeWarnings(v) ==
    LET offset_seconds == IF v.aware THEN v.off ELSE 0
        hours == TruncDiv(offset_seconds, 3600)
    IN  (IF v.aware THEN {} ELSE {"naive"})
            \cup (IF offset_seconds % 3600 # 0 THEN {"truncating"} ELSE {})
            \cup (IF hours < -128 \/ hours > 127 THEN {"clamping"} ELSE {})

\* struct.pack("<Qxxxx", ...) raises struct.error for a negative timestamp;
\* otherwise eight little-endian bytes and four zero bytes, and then byte 9
\* is overwritten with offset_hours & 0xFF.
_build_time_payload(v) ==
    IF v.ts < 0 THEN <<>>
    ELSE [Bytes(v.ts, 8) \o <<0, 0, 0, 0>> EXCEPT ![10] = offset_hours(v) % 256]

\* A caller has a datetime at hand.
TimeInit ==
    /\ SessionInit /\ DataInit /\ CheckIdle /\ DecodeIdle /\ PyIdle /\ UpdateIdle
    /\ value \in TimeValues
    /\ payload = <<>>
    /\ tlog = {}

\* The call of _build_time_payload on that datetime.
BuildTimePayload ==
    /\ payload = <<>> /\ tlog = {}
    /\ payload' = _build_time_payload(value)
    /\ tlog' = TimeWarnings(value)
    /\ UNCHANGED <<svars, dvars, value, cvars, xvars, yvars, uvars>>

TimeNext == BuildTimePayload

TimeSpec == TimeInit /\ [][TimeNext]_vars

-----------------------------------------------------------------------------
(* The check of a response (device.py, _check_command_result) *)

\* The largest byte value of a response tried, and the largest index asked
\* for.
MaxByte == 2
MaxIndex == 2

\* The responses tried: None, and the byte strings of up to two bytes.
Responses ==
    {[none |-> TRUE, bytes |-> <<>>]}
        \cup {[none |-> FALSE, bytes |-> b] :
                 b \in {<<>>} \cup {<<x>> : x \in 0..MaxByte}
                        \cup {<<x, y>> : x, y \in 0..MaxByte}}

\* The calls tried: callers pass an index that is not negative.
Checks ==
    {[none |-> r.none, bytes |-> r.bytes, index |-> i, values |-> vs] :
        r \in Responses, i \in 0..MaxIndex, vs \in SUBSET (0..MaxByte)}

\* `not result or len(result) - 1 < index` raises UberSmartOperationError;
\* otherwise the call returns result[index] in values.
_check_command_result_lenient(r, index, values) ==
    IF r.none \/ r.bytes = <<>> \/ Len(r.bytes) - 1 < index
    THEN "False"
    ELSE IF r.bytes[index + 1] \in values THEN "True" ELSE "False"
_check_command_result(r, index, values) ==
    IF r.none \/ r.bytes = <<>> \/ Len(r.bytes) - 1 < index
    THEN "raise"
    ELSE IF r.bytes[index + 1] \in values THEN "True" ELSE "False"

\* A caller has a response at hand.
CheckInit ==
    /\ SessionInit /\ DataInit /\ TimeIdle /\ DecodeIdle /\ PyIdle /\ UpdateIdle
    /\ response \in Checks
    /\ checked = "none"

\* The call of _check_command_result on that response.
CheckCommandResult ==
    /\ checked = "none"
    /\ checked' = _check_command_result(response, response.index, response.values)
    /\ UNCHANGED <<svars, dvars, tvars, response, xvars, yvars, uvars>>

CheckNext == CheckCommandResult

CheckSpec == CheckInit /\ [][CheckNext]_vars

-----------------------------------------------------------------------------
(* The decoding of one frame (adv_parsers/ubersmart.py) *)

\* The byte values tried in the integer fields.
FieldBytes == {0, 1, 255}

\* The frames decoded one by one: those of the notifications, and for each
\* tag with integer fields the frames whose fields take the values tried
\* (a tag-3 time with its highest byte set is beyond the year 9999).
DecodeFrames ==
    Frames
    \cup {<<2, e, p, h, sl>> \o Zeros(4) : e, p, h, sl \in FieldBytes}
    \cup {<<3, a, b>> \o Zeros(5) \o <<c>> \o Zeros(4) \o <<l, m>> :
             a, b, l, m \in {0, 255}, c \in {0, 1}}
    \cup {<<4, a, m>> \o Zeros(16) : a, m \in FieldBytes}
    \cup {<<5, a, b, c, e>> : a, b, c, e \in {0, 255}}
    \cup {<<255>>}

\* A caller has a frame at hand.
DecodeInit ==
    /\ SessionInit /\ DataInit /\ TimeIdle /\ CheckIdle /\ PyIdle /\ UpdateIdle
    /\ frame \in DecodeFrames
    /\ decoded = [done |-> FALSE, ok |-> FALSE, frag |-> EmptyMap]

\* The call of process_ubersmart on that frame.
Decode ==
    /\ ~decoded.done
    /\ LET d == process_ubersmart(frame)
       IN  decoded' = [done |-> TRUE, ok |-> d.ok, frag |-> d.frag]
    /\ UNCHANGED <<svars, dvars, tvars, cvars, frame, yvars, uvars>>

DecodeNext == Decode

DecodeSpec == DecodeInit /\ [][DecodeNext]_vars

-----------------------------------------------------------------------------
(* The single-switch operations of the pyubersolar variant *)

\* The bytes each operation assigns in the cached buffer, as pairs of index
\* and value, besides byte 0.  Turning the element on also turns the pump
\* off, and turning the pump on the element.
turn_on_element_keeps_pump == {<<1, 1>>}
turn_on_element == {<<1, 1>>, <<2, 0>>}
turn_off_element == {<<1, 0>>}
turn_on_pump == {<<1, 0>>, <<2, 1>>}
turn_off_pump == {<<2, 0>>}
turn_on_holiday == {<<3, 1>>}
turn_off_holiday == {<<3, 0>>}
set_solinoid_off == {<<4, 0>>}
set_solinoid_on == {<<4, 1>>}
set_solinoid_auto == {<<4, 2>>}

\* The operations by name.
PyOps ==
    [turn_on_element |-> turn_on_element, turn_off_element |-> turn_off_element,
     turn_on_pump |-> turn_on_pump, turn_off_pump |-> turn_off_pump,
     turn_on_holiday |-> turn_on_holiday, turn_off_holiday |-> turn_off_holiday,
     set_solinoid_off |-> set_solinoid_off, set_solinoid_on |-> set_solinoid_on,
     set_solinoid_auto |-> set_solinoid_auto]

\* current_switches[0] = 6 and the assignments of the operation, on the
\* cached bytearray itself.
PyAssign(buf, writes) ==
    [i \in 1..5 |->
        IF i = 1 THEN 6
        ELSE IF \E w \in writes : w[1] = i - 1
             THEN (CHOOSE w \in writes : w[1] = i - 1)[2]
             ELSE buf[i]]

\* The states of the four switches in which element and pump are not both
\* on.
PySwitchStates ==
    {<<e, p, h, sl>> : e \in 0..1, p \in 0..1, h \in 0..1, sl \in 0..2} \
        {<<1, 1, h, sl>> : h \in 0..1, sl \in 0..2}

\* The device has some such state, and the cached buffer is the start of
\* the tag-2 frame that reported it.
PyInit ==
    /\ SessionInit /\ DataInit /\ TimeIdle /\ CheckIdle /\ DecodeIdle
    /\ UpdateIdle
    /\ pydev \in PySwitchStates
    /\ pybuf = <<2>> \o pydev
    /\ pyop = "idle" /\ pykey = <<>> /\ pysent = <<>>
    /\ pyprior = pybuf

\* A single-switch operation up to the await of _send_command: the cached
\* buffer is changed in place and its hex form is the command.
PyInvoke(name) ==
    /\ pyop = "idle"
    /\ pybuf' = PyAssign(pybuf, PyOps[name])
    /\ pykey' = pybuf'
    /\ pyop' = name
    /\ pyprior' = pybuf
    /\ UNCHANGED <<svars, dvars, tvars, cvars, xvars, uvars, pydev, pysent>>

\* _send_command returns: the command was written, and the device sets its
\* switches to bytes 1 to 4 of it.
PySendReturns ==
    /\ pyop # "idle"
    /\ pysent' = pykey
    /\ pydev' = SubSeq(pykey, 2, 5)
    /\ pyop' = "idle"
    /\ pyprior' = pybuf
    /\ UNCHANGED <<svars, dvars, tvars, cvars, xvars, uvars, pybuf, pykey>>

\* _send_command raises: nothing was written.
PySendRaises ==
    /\ pyop # "idle"
    /\ pyop' = "idle"
    /\ pyprior' = pybuf
    /\ UNCHANGED <<svars, dvars, tvars, cvars, xvars, uvars, pybuf, pydev, pykey,
                   pysent>>

\* A tag-2 notification reports the switches of the device: its first five
\* bytes become the cached buffer.
PyNotify ==
    /\ pybuf' = <<2>> \o pydev
    /\ pybuf' # pybuf
    /\ pyprior' = pybuf'
    /\ UNCHANGED <<svars, dvars, tvars, cvars, xvars, uvars, pydev, pyop, pykey,
                   pysent>>

PyNext ==
    \/ \E name \in DOMAIN PyOps : PyInvoke(name)
    \/ PySendReturns
    \/ PySendRaises
    \/ PyNotify

PySpec == PyInit /\ [][PyNext]_vars

-----------------------------------------------------------------------------
(* update() and its callbacks (device.py) *)

\* The largest value of the clock.
MaxClock == 2

\* The callbacks in a list.
Subscribed(cbs) == {cbs[i] : i \in 1..Len(cbs)}

\* list.remove(c): the first occurrence of c is taken out.
Remove(cbs, c) ==
    LET k == CHOOSE i \in 1..Len(cbs) :
                 cbs[i] = c /\ \A j \in 1..(i - 1) : cbs[j] # c
    IN  SubSeq(cbs, 1, k - 1) \o SubSeq(cbs, k + 1, Len(cbs))

\* "for callback in self._callbacks: callback()": the list iterator is at
\* position i of the list as it is now; the callback "once" calls its
\* _unsub, which removes it from that same list.
RECURSIVE _fire_callbacks(_, _, _)
_fire_callbacks(cbs, i, counts) ==
    IF i > Len(cbs) THEN [cbs |-> cbs, counts |-> counts]
    ELSE LET c == cbs[i]
         IN  _fire_callbacks(IF c = "once" THEN Remove(cbs, c) ELSE cbs,
                             i + 1, [counts EXCEPT ![c] = @ + 1])

\* subscribe(callback), for a callback that is not subscribed already.
subscribe(c) ==
    /\ c \notin Subscribed(callbacks)
    /\ callbacks' = Append(callbacks, c)
    /\ UNCHANGED <<svars, dvars, tvars, cvars, xvars, yvars, now, last_full,
                   upc, upResult, firedLast>>

\* The _unsub returned by subscribe is called by its owner.
_unsub(c) ==
    /\ c \in Subscribed(callbacks)
    /\ callbacks' = Remove(callbacks, c)
    /\ UNCHANGED <<svars, dvars, tvars, cvars, xvars, yvars, now, last_full,
                   upc, upResult, firedLast>>

\* Time passes.
Tick ==
    /\ now < MaxClock
    /\ now' = now + 1
    /\ UNCHANGED <<svars, dvars, tvars, cvars, xvars, yvars, callbacks,
                   last_full, upc, upResult, firedLast>>

\* update() is called and awaits get_info().
UpdateStarts ==
    /\ upc = "idle"
    /\ upc' = "poll"
    /\ UNCHANGED <<svars, dvars, tvars, cvars, xvars, yvars, callbacks, now,
                   last_full, upResult, firedLast>>

\* get_info() raises, and so does update().
UpdatePollRaises ==
    /\ upc = "poll"
    /\ upc' = "idle" /\ upResult' = "raise"
    /\ UNCHANGED <<svars, dvars, tvars, cvars, xvars, yvars, callbacks, now,
                   last_full, firedLast>>

\* get_info() returns: update() records the time, fires the callbacks and
\* returns True.
UpdatePollReturns ==
    /\ upc = "poll"
    /\ last_full' = now
    /\ LET r == _fire_callbacks(callbacks, 1, [c \in Callbacks |-> 0])
       IN  callbacks' = r.cbs /\ firedLast' = r.counts
    /\ upc' = "idle" /\ upResult' = "True"
    /\ UNCHANGED <<svars, dvars, tvars, cvars, xvars, yvars, now>>

UpdateNext ==
    \/ \E c \in Callbacks : subscribe(c)
    \/ \E c \in Callbacks : _unsub(c)
    \/ Tick
    \/ UpdateStarts
    \/ UpdatePollRaises
    \/ UpdatePollReturns

UpdateSpec == Init /\ [][UpdateNext]_vars

----------------------------------------------------------------------------
(* Properties *)

\* The caller is inside the dispatch body of _send_command.
InBody(t) == pc[t] \notin {"idle", "wait_op"}

\* Retryable failures other than device-not-found and missing-characteristic.
Transient == {"BleakError", "BleakDBusError", "TimeoutError"}

\* Some link opened by the session is up.
LinkUp == client = "Up" \/ lclient = "Up" \/ dclient = "Up"

\* C1: at most one caller is inside the dispatch body, and a caller inside
\* it holds the operation lock at every suspension point of every attempt.
C1_OneCommandInBody ==
    /\ Cardinality({t \in Tasks : InBody(t)}) <= 1
    /\ \A t \in Tasks : InBody(t) => opLocked /\ opOwner = t

\* Witness C1: one caller is in a second attempt while the other waits for
\* the operation lock.
C1_Witness ==
    \E t, u \in Tasks :
        /\ InBody(t) /\ attempt[t] = 1 /\ fails[t] = 1
        /\ pc[u] = "wait_op"

\* C2: a send never makes more than retry + 1 attempts; when a transient
\* failure is its failure number k, the send is still running if k <= retry
\* (the failure was swallowed) and has raised that failure if k = retry + 1.
C2_RetryBound ==
    \A t \in Tasks :
        /\ attempt[t] <= retry[t]
        /\ lastFail[t] \in Transient =>
            /\ fails[t] <= retry[t] + 1
            /\ fails[t] = retry[t] + 1 =>
                   pc[t] = "idle" /\ result[t] = lastFail[t]
            /\ fails[t] <= retry[t] =>
                   InBody(t) /\ result[t] = "none" /\ attempt[t] = fails[t]

\* Witness C2: a send with retry limit 1 has raised after two failures, the
\* last one transient.
C2_Witness ==
    \E t \in Tasks :
        /\ retry[t] = 1 /\ fails[t] = 2 /\ lastFail[t] \in Transient
        /\ pc[t] = "idle" /\ result[t] \in Transient

\* C3: a device-not-found failure is the last failure of its send: the
\* send has raised it and released the operation lock, whatever the attempt
\* and the remaining retry budget.
C3_NotFoundIsFatal ==
    \A t \in Tasks :
        lastFail[t] = "BleakNotFoundError" =>
            /\ pc[t] = "idle"
            /\ result[t] = "BleakNotFoundError"
            /\ opOwner # t

\* Witness C3: device-not-found was raised on the first attempt of a send
\* with retry limit 1, and on the second attempt of another.
C3_Witness ==
    \E t, u \in Tasks :
        /\ retry[t] = 1 /\ fails[t] = 1
        /\ lastFail[t] = "BleakNotFoundError" /\ pc[t] = "idle"
        /\ retry[u] = 1 /\ fails[u] = 2
        /\ lastFail[u] = "BleakNotFoundError"

\* C4: every send that has been called eventually returns or raises.
C4_EverySendEnds ==
    \A t \in Tasks : (pc[t] # "idle") ~> (pc[t] = "idle")

\* C5: after a missing characteristic the cache is cleared, the forced
\* disconnect is done and the failure is raised out of the connection
\* attempt, with the connect lock released by the caller, no stored handle
\* and no link left up.
C5_MissingCharacteristicRaises ==
    \A t \in Tasks :
        (pc[t] = "clear_cache") ~>
            (/\ lastFail[t] = "CharacteristicMissingError"
             /\ pc[t] \notin {"clear_cache", "fd_wait", "fd_disc"}
             /\ ~LinkUp)

\* C6: a send whose last permitted attempt hits a missing characteristic
\* raises that failure to the caller after retry + 1 attempts.
C6_MissingCharacteristicExhausts ==
    \A t \in Tasks :
        (pc[t] = "clear_cache" /\ attempt[t] = retry[t]) ~>
            (/\ pc[t] = "idle"
             /\ result[t] = "CharacteristicMissingError"
             /\ fails[t] = retry[t] + 1)

\* A step of a timed-disconnect task that enters the body of
\* _execute_disconnect.
TimedStep ==
    \/ _execute_timed_disconnect
    \/ /\ connWaiters # <<>>
       /\ Head(connWaiters) = Timed
       /\ ConnLockGranted

\* The idle path leaves the handle, the references and the link alone.
SessionKept ==
    /\ client' = client /\ readChar' = readChar /\ writeChar' = writeChar
    /\ dclient' = dclient

\* C7 as stated: whenever the operation lock is held, a firing timer is
\* rearmed and a timed disconnect changes nothing.
C7_IdleNeverActsUnderGuard ==
    [][/\ (opLocked /\ _disconnect_from_timer) =>
              timer' = "Armed" /\ timedNew' = timedNew /\ SessionKept
       /\ (opLocked /\ TimedStep) => SessionKept]_vars

\* C7 amended: while the operation lock is held and the stored link is
\* connected, a firing timer is rearmed, and a timed disconnect changes
\* nothing unless the holder of the lock has itself begun a forced
\* disconnect and waits for the connect lock.
C7_IdleNeverClosesLiveLinkUnderGuard ==
    [][/\ (opLocked /\ client = "Up" /\ _disconnect_from_timer) =>
              timer' = "Armed" /\ timedNew' = timedNew /\ SessionKept
       /\ (opLocked /\ client = "Up" /\ pc[opOwner] # "fd_wait"
              /\ TimedStep) => SessionKept]_vars

\* Witness C7: the timer has fired and was rearmed during a write that is
\* still pending on a connected link.
C7_Witness ==
    \E t \in Tasks :
        /\ pc[t] = "write" /\ opOwner = t /\ client = "Up"
        /\ rearmed /\ timer = "Armed"

\* The write failures after which _send_command_locked forces a disconnect.
NeedsReconnect == {"BleakDBusError", "BleakError"}

C9_HandleIffLinkUp == (client # "None") <=> LinkUp

\* C9 amended: a stored handle is up unless the transport dropped it, and
\* with no handle stored a link is up only inside the connect lock: while a
\* disconnect awaits the transport, or after a missing characteristic.
C9_HandleVsLink ==
    /\ (client # "None" /\ ~LinkUp) => client = "Down"
    /\ (client # "Up" /\ LinkUp) =>
           /\ connLocked
           /\ \/ /\ dclient = "Up" /\ lclient # "Up"
                 /\ tpc = "disc" \/ \E t \in Tasks : pc[t] = "fd_disc"
              \/ /\ lclient = "Up" /\ dclient # "Up"
                 /\ \E t \in Tasks :
                        pc[t] \in {"clear_cache", "fd_wait"} /\ connOwner = t

\* Witness C9: a disconnect is in progress, the handle is cleared and the
\* link is still up.
C9_Witness == client = "None" /\ dclient = "Up" /\ tpc = "disc"

\* C10: a send that enters the dispatch body on a link the transport has
\* dropped starts a connection attempt (or waits for the connect lock)
\* with no failure recorded, and when it then meets no transport failure
\* it ends well, after one new connect.
C10_ReconnectAfterDrop ==
    [][\A t \in Tasks :
        /\ (client = "Down" /\ ~InBody(t) /\ InBody(t)') =>
               /\ pc'[t] \in {"connect", "wait_connect"}
               /\ afterDrop'[t] /\ fails'[t] = 0 /\ result'[t] = "none"
        /\ (/\ afterDrop[t] /\ pc[t] # "idle" /\ pc'[t] = "idle"
            /\ fails[t] = 0 /\ fails'[t] = 0) =>
               result'[t] = "ok" /\ connects[t] = 1]_vars

\* Witness C10: such a send has connected anew and its write is pending.
C10_Witness ==
    \E t \in Tasks :
        /\ afterDrop[t] /\ fails[t] = 0 /\ connects[t] = 1
        /\ pc[t] = "write" /\ client = "Up"

\* The timer callback never reads the connected flag of a missing handle.
NoCallbackError == ~cbError

\* The number of links opened by the session that are up.
LinksUp ==
    (IF client = "Up" THEN 1 ELSE 0) + (IF lclient = "Up" THEN 1 ELSE 0)
        + (IF dclient = "Up" THEN 1 ELSE 0)

\* At most one link is up, and a connection attempt starts only with no
\* connected handle stored and no disconnect in progress.
OneLinkAtATime ==
    /\ [](LinksUp <= 1)
    /\ [][\A t \in Tasks :
            (pc[t] # "connect" /\ pc'[t] = "connect") =>
                /\ client' # "Up" /\ dclient' # "Up" /\ tpc' = "none"
                /\ connOwner' = t]_vars

\* C11: at most one link opened by the session is up, a connection attempt
\* starts only with no connected handle stored and no disconnect in
\* progress, and a link that is up and not stored (nor being disconnected)
\* does not stay so: the session closes it.
C11_OneTrackedLink ==
    /\ OneLinkAtATime
    /\ (lclient = "Up") ~> (lclient # "Up")

\* C12: a key of the status mapping that is present stays present, with its
\* value unchanged unless a frame that carries the key overwrites it.
C12_StatusNeverEmptied ==
    [][\A k \in Keys :
        status_data.m[k] # <<>> =>
            \/ status_data'.m[k] = status_data.m[k]
            \/ /\ status_data'.m[k] # <<>>
               /\ \E f \in Frames :
                      /\ process_ubersmart(f).ok
                      /\ process_ubersmart(f).frag[k] = status_data'.m[k]]_vars

\* C13: every key holds the value decoded from the last frame that carried
\* it; a frame with an unknown tag decodes to a fragment whose merge changes
\* nothing; and a notification (the step that makes its frame the last one
\* of a key) overwrites exactly the keys the frame carries, with the
\* decoded values, and leaves every other key as it was.
C13_NotificationMerges ==
    /\ [](/\ \A k \in Keys :
               status_data.m[k] =
                   IF latest[k] = <<>> THEN <<>>
                   ELSE process_ubersmart(latest[k]).frag[k]
          /\ \A f \in Frames :
               (f # <<>> /\ f[1] \notin 1..5) =>
                   Merge(status_data.m, process_ubersmart(f).frag)
                       = status_data.m)
    /\ [][\A k \in Keys :
            (latest'[k] # latest[k] /\ latest'[k] # <<>>) =>
                LET d == process_ubersmart(latest'[k])
                IN  \A j \in Keys :
                        status_data'.m[j] =
                            IF d.frag[j] # <<>> THEN d.frag[j]
                            ELSE status_data.m[j]]_vars

\* Witness C13: the mapping holds a tag-2 fragment, and a tag-1 and a tag-5
\* fragment that other frames brought.
C13_Witness ==
    /\ status_data.m["switches"] = <<1, 0, 0, 2, 0>>
    /\ status_data.m["temps"] # <<>>
    /\ status_data.m["FaultCodes"] # <<>>
    /\ latest["temps"] # latest["switches"]

\* C14: a send that has returned has made exactly one successful write when
\* its command is not empty, and none when it is empty; a send that is in
\* progress, or has raised, has no successful write; and the step in which
\* a write succeeds is the step in which the send returns.
C14_ReturnsAfterOneWrite ==
    /\ [](\A t \in Tasks :
            /\ (pc[t] = "idle" /\ result[t] = "ok") =>
                   written[t] = (IF cmd[t] THEN 1 ELSE 0)
            /\ (pc[t] # "idle" \/ result[t] # "ok") => written[t] = 0
            /\ (pc[t] = "write") => cmd[t])
    /\ [][\A t \in Tasks :
            (written'[t] = written[t] + 1) =>
                /\ pc[t] = "write" /\ WriterLinkUp
                /\ pc'[t] = "idle" /\ result'[t] = "ok"]_vars

\* Witness C14: one send has returned after its write, and a poll with an
\* empty command has returned without a write.
C14_Witness ==
    \E t, u \in Tasks :
        /\ pc[t] = "idle" /\ result[t] = "ok" /\ cmd[t] /\ written[t] = 1
        /\ pc[u] = "idle" /\ result[u] = "ok" /\ ~cmd[u] /\ written[u] = 0

\* C15: a single-switch operation of the ubersolar variant does not fail for
\* want of a buffer; when it has returned it has written one 5-byte command
\* whose byte 0 is 6 and whose targeted byte is the requested value; and the
\* command it builds differs from the cached AllSwitches buffer in no byte
\* but byte 0 and the targeted one.
C15_SwitchSendsWholeBuffer ==
    /\ [](op \in SwitchOps =>
            /\ opResult \in {"none", "ok", "BleakError"}
            /\ (opResult = "ok") =>
                   /\ sent = key /\ Len(sent) = 5
                   /\ sent[1] = 6 /\ sent[op.ix + 1] = op.val)
    /\ [][(opc # "send" /\ opc' = "send" /\ op' \in SwitchOps) =>
              /\ Len(status_data.m["AllSwitches"]) = 5
              /\ \A i \in (2..5) \ {op'.ix + 1} :
                     key'[i] = status_data.m["AllSwitches"][i]]_vars

\* C16: a single-switch operation started while no AllSwitches buffer is
\* cached first performs a status update, and no operation ends on a
\* missing buffer.
C16_UpdatesWhenBufferMissing ==
    /\ [](opResult # "KeyError")
    /\ [][(opc = "idle" /\ opc' # "idle" /\ op' \in SwitchOps
              /\ (~status_data.has \/ status_data.m["AllSwitches"] = <<>>)) =>
                 opc' = "update"]_vars

\* C17: when a single-switch operation has been applied twice in a row with
\* no notification since the first was started, and the transport failed in
\* neither, both wrote the same 5-byte command and the cached AllSwitches
\* buffer is that command.
C17_SameSwitchTwice ==
    (/\ again /\ opc = "idle" /\ ~noted
     /\ prev.res # "BleakError" /\ opResult # "BleakError") =>
        /\ prev.res = "ok" /\ opResult = "ok"
        /\ Len(sent) = 5 /\ sent = prev.sent
        /\ status_data.m["AllSwitches"] = sent

\* C18: once a tag-2 frame has been merged, the aggregated status holds the
\* frame's bytes 1 to 4 as element-on, pump-on, holiday-mode and
\* solenoid-mode, and an AllSwitches entry equal to its first five bytes.
C18_Tag2YieldsAllSwitches ==
    LET f == latest["switches"]
    IN  (f # <<>>) =>
            /\ SubSeq(status_data.m["switches"], 1, 4) = SubSeq(f, 2, 5)
            /\ status_data.m["AllSwitches"] = SubSeq(f, 1, 5)

\* C19: for a whole-hour offset of H hours, byte 9 of the time payload read
\* as a signed 8-bit value is H when H is in [-128,127], -128 when H is
\* below and 127 when H is above.
C19_WholeHourOffsetByte ==
    (payload # <<>> /\ value.aware /\ value.off % 3600 = 0) =>
        LET H == value.off \div 3600
        IN  /\ (-128 <= H /\ H <= 127) => S8(payload[10]) = H
            /\ (H < -128) => S8(payload[10]) = -128
            /\ (H > 127) => S8(payload[10]) = 127

\* Witness C19: a payload was built for an offset of 129 hours, above the
\* range of the byte.
C19_Witness ==
    /\ payload # <<>> /\ value.aware
    /\ value.off = 129 * 3600
    /\ payload[10] = 127

\* C20: for an offset that is not a whole number of hours, byte 9 of the
\* time payload read as a signed 8-bit value is the floor of the offset in
\* hours.
C20_OffsetByteIsFloor ==
    (/\ payload # <<>> /\ value.aware /\ value.off % 3600 # 0
     /\ -128 * 3600 <= value.off /\ value.off < 128 * 3600) =>
        S8(payload[10]) = value.off \div 3600

\* C20, amended: for an offset that is not a whole number of hours, byte 9
\* is the offset in hours rounded toward zero: the floor of a positive
\* offset, one more than the floor of a negative one.
C20_OffsetByteTruncates ==
    (/\ payload # <<>> /\ value.aware /\ value.off % 3600 # 0
     /\ -128 * 3600 <= value.off /\ value.off < 128 * 3600) =>
        S8(payload[10]) = (value.off \div 3600) + (IF value.off < 0 THEN 1 ELSE 0)

\* Witness C20: a payload was built for an offset of minus five and a half
\* hours, and its byte 9 reads -5.
C20_Witness ==
    /\ payload # <<>> /\ value.aware
    /\ value.off = -(5 * 3600 + 1800)
    /\ S8(payload[10]) = -5

\* The response has a byte at the index asked for.
HasByte == ~response.none /\ response.index < Len(response.bytes)

\* C21: the check raises the operation error exactly when the byte of the
\* response at the index is not in the expected set, returns True when it
\* is, and the operation error is not among the failures a send retries.
C21_RaisesOnUnexpectedByte ==
    /\ "UberSmartOperationError" \notin BLEAK_RETRY_EXCEPTIONS
    /\ (checked # "none") =>
          /\ (checked = "raise") <=>
                 (HasByte /\ response.bytes[response.index + 1]
                                 \notin response.values)
          /\ (HasByte /\ response.bytes[response.index + 1]
                             \in response.values) => checked = "True"

\* C21, amended: the check raises the operation error exactly when the
\* response is None, empty, or too short to have a byte at the index;
\* otherwise it returns whether that byte is in the expected set, False
\* included; and the operation error is not among the failures a send
\* retries.
C21_RaisesOnMissingByte ==
    /\ "UberSmartOperationError" \notin BLEAK_RETRY_EXCEPTIONS
    /\ (checked # "none") =>
          /\ (checked = "raise") <=> ~HasByte
          /\ HasByte =>
                 checked = (IF response.bytes[response.index + 1]
                                   \in response.values
                            THEN "True" ELSE "False")

\* Witness C21: a response whose byte at the index is not expected was
\* checked and the call returned False; the byte is there.
C21_Witness ==
    /\ checked = "False"
    /\ response.bytes = <<1, 2>> /\ response.index = 1
    /\ response.values = {1}

\* C22: every frame that is long enough for its tag decodes; a tag of 1 to
\* 5 yields the one key of that tag and no other, any other first byte an
\* empty fragment; and each integer field, written back as little-endian
\* bytes of its width, gives the bytes of the frame it was read from.
C22_DecoderRoundTrip ==
    (decoded.done /\ Len(frame) >= 1 /\ Len(frame) >= Needs(frame[1])) =>
        LET f == frame
            g == decoded.frag
            own == CASE f[1] = 1 -> {"temps"} [] f[1] = 2 -> {"switches"}
                     [] f[1] = 3 -> {"diag1"} [] f[1] = 4 -> {"diag2"}
                     [] f[1] = 5 -> {"FaultCodes"} [] OTHER -> {}
        IN  /\ decoded.ok
            /\ {k \in Keys : g[k] # <<>>} = own
            /\ (f[1] = 2) =>
                   \A i \in 1..4 : Bytes(g["switches"][i], 1) = Slice(f, i, 1)
            /\ (f[1] = 5) =>
                   \A i \in 1..4 : Bytes(g["FaultCodes"][i], 1) = Slice(f, i, 1)
            /\ (f[1] = 3) =>
                   /\ Bytes(g["diag1"][1], 8) = Slice(f, 1, 8)
                   /\ Bytes(g["diag1"][3], 2) = Slice(f, 13, 2)
            /\ (f[1] = 4) =>
                   Bytes(g["diag2"][1] % 65536, 2) = Slice(f, 1, 2)

\* C23: when a send returns successfully the idle timer is set, its
\* callback has not run, and it was armed during that send.
C23_SuccessLeavesTimerArmed ==
    [][\A t \in Tasks :
          (pc[t] # "idle" /\ pc'[t] = "idle" /\ result'[t] = "ok") =>
              /\ timer' \in {"Armed", "Due"}
              /\ armedIn' = t]_vars

\* C23, amended: when a send returns successfully and either its command
\* was not empty or the link is still connected, the idle timer is set, its
\* callback has not run, and it was armed during that send.
C23_SuccessOnLiveLinkLeavesTimerArmed ==
    [][\A t \in Tasks :
          (/\ pc[t] # "idle" /\ pc'[t] = "idle" /\ result'[t] = "ok"
           /\ (cmd'[t] \/ client' = "Up")) =>
              /\ timer' \in {"Armed", "Due"}
              /\ armedIn' = t]_vars

\* Witness C23: both callers' sends have returned successfully, and the
\* timer that is armed was armed in the second one, a command written on
\* the link the first had opened.
C23_Witness ==
    \E t, u \in Tasks :
        /\ t # u
        /\ pc[t] = "idle" /\ result[t] = "ok"
        /\ pc[u] = "idle" /\ result[u] = "ok" /\ cmd[u] /\ written[u] = 1
        /\ client = "Up" /\ timer = "Armed" /\ armedIn = u

\* A step in which a timed-disconnect task acquires the connect lock: at
\* once when it starts, or when it is resumed as the first waiter.
TimedAcquires ==
    \/ LockFree(connLocked, connWaiters) /\ _execute_timed_disconnect
    \/ /\ connWaiters # <<>>
       /\ Head(connWaiters) = Timed
       /\ ConnLockGranted

\* C24: when a timed disconnect acquires the connect lock while the timer
\* is set again, it leaves the handle, the references, the link, the timer
\* and the expected-disconnect flag as they are and ends, and a caller that
\* awaits its write goes on awaiting it.
C24_RearmedTimerSparesLink ==
    [][(timer \in {"Armed", "Due"} /\ TimedAcquires) =>
          /\ SessionKept
          /\ timer' = timer /\ expected' = expected /\ lclient' = lclient
          /\ tpc' = "none" /\ ~connLocked'
          /\ \A t \in Tasks : pc[t] = "write" => pc'[t] = "write"]_vars

\* Witness C24: a timed disconnect has found the timer set and returned
\* while a caller awaits its write on the connected link.
C24_Witness ==
    \E t \in Tasks :
        /\ spared /\ pc[t] = "write" /\ opOwner = t
        /\ client = "Up" /\ timer = "Armed" /\ dclient = "None"

\* C25: a caller awaits a write, and a write succeeds, only on a link on
\* which the subscription to notifications has succeeded and the settle
\* delay is over.
C25_WritesOnlyOnSubscribedLink ==
    /\ [](\A t \in Tasks : (pc[t] = "write" /\ client # "None") => subscribed)
    /\ [][\A t \in Tasks :
            (written'[t] = written[t] + 1 /\ client # "None") => subscribed]_vars

\* C26: in the pyubersolar variant the command of turn_on_element has
\* element 1 and pump 0, the command of turn_on_pump has pump 1 and element
\* 0, and no command that is built or written has element and pump both
\* on.
C26_ElementAndPumpNeverBothOn ==
    /\ (pyop = "turn_on_element") => (pykey[2] = 1 /\ pykey[3] = 0)
    /\ (pyop = "turn_on_pump") => (pykey[2] = 0 /\ pykey[3] = 1)
    /\ (pykey # <<>>) => ~(pykey[2] = 1 /\ pykey[3] = 1)
    /\ (pysent # <<>>) => ~(pysent[2] = 1 /\ pysent[3] = 1)
    /\ ~(pybuf[2] = 1 /\ pybuf[3] = 1)

\* Witness C26: with the pump on at the device, turn_on_element has built
\* the command with the element on and the pump off.
C26_Witness ==
    /\ pyop = "turn_on_element"
    /\ pydev[2] = 1 /\ pysent # <<>> /\ pysent[3] = 1
    /\ pykey[2] = 1 /\ pykey[3] = 0

\* C27: an update whose poll returns records the time and invokes every
\* callback subscribed at that moment exactly once and no other; an update
\* whose poll raises leaves the recorded time, the callbacks and what was
\* invoked as they were.
C27_UpdateFiresEachCallbackOnce ==
    [][/\ (upc = "poll" /\ upc' = "idle" /\ upResult' = "True") =>
              /\ last_full' = now
              /\ \A c \in Callbacks :
                     firedLast'[c] =
                         (IF c \in Subscribed(callbacks) THEN 1 ELSE 0)
       /\ (upc = "poll" /\ upc' = "idle" /\ upResult' = "raise") =>
              /\ last_full' = last_full
              /\ firedLast' = firedLast
              /\ callbacks' = callbacks]_vars
\* C28: the RuntimeError after the retry loop is never raised: whatever
\* retry limit the caller passes, no send ends with it.
C28_UnreachableNeverRaised ==
    \A t \in Tasks : result[t] # "RuntimeError"

\* C29: whenever a task reaches the write step, the stored handle and both
\* characteristic references are set, so none of the three assertions at
\* its start fails: no send ends with an AssertionError, and a task that
\* begins to wait for write_gatt_char does so with all three in place.
C29_WriteAssertionsHold ==
    [][\A t \in Tasks :
          /\ result'[t] # "AssertionError"
          /\ (pc[t] # "write" /\ pc'[t] = "write") =>
                 (client' # "None" /\ readChar' /\ writeChar')]_vars

\* Witness C29: a write has passed the assertions on the second attempt of
\* a send that reconnected, while a timed disconnect task has been created
\* and has not yet run.
C29_Witness ==
    \E t \in Tasks :
        /\ pc[t] = "write" /\ attempt[t] = 1 /\ connects[t] >= 1
        /\ timedNew > 0
        /\ client # "None" /\ readChar /\ writeChar

\* C30: whenever the idle-disconnect timer is armed (waiting, or due with
\* its callback not yet run) the stored handle is set, and the timer
\* callback never reads the connected flag of a missing handle.
C30_ArmedTimerHasHandle ==
    /\ timer \in {"Armed", "Due"} => client # "None"
    /\ ~cbError

\* Witness C30: the timer callback has run during an operation and re-armed
\* the timer after reading the connected flag of the stored handle.
C30_Witness ==
    /\ rearmed /\ opLocked /\ timer = "Armed" /\ client = "Up"
    /\ ~cbError

\* No caller is inside a send.
AllIdle == \A t \in Tasks : pc[t] = "idle"

\* The session is Disconnected: the handle and both references are cleared
\* and no link of the session is open.
Disconnected ==
    /\ client = "None" /\ ~readChar /\ ~writeChar
    /\ ~LinkUp

\* C31: whenever a connected link is stored, the idle timer is pending or
\* a disconnect task is pending; and unless commands keep being issued for
\* ever, a state in which a send has succeeded and every caller is idle is
\* followed by the session being Disconnected (or by a caller being inside
\* a further send).
C31_IdleLinkIsClosed ==
    /\ []((client = "Up") => (timer \in {"Armed", "Due"} \/ TimedAlive > 0))
    /\ \/ []<><<Send(Caller)>>_vars
       \/ ((AllIdle /\ \E t \in Tasks : result[t] = "ok")
              ~> (Disconnected \/ ~AllIdle))

\* Witness C31: after a successful send the timed disconnect has closed the
\* link and cleared the session while every caller stayed idle.
C31_Witness ==
    /\ AllIdle /\ Disconnected /\ timer = "None" /\ TimedAlive = 0
    /\ expected
    /\ \E t \in Tasks : result[t] = "ok" /\ written[t] = 1
    /\ \A t \in Tasks : result[t] \in {"ok", "none"}

\* C32: when the send of a single-switch operation raises, the cached
\* AllSwitches buffer is what it was when the operation was called (or what
\* a notification received since made it).
C32_FailedSendLeavesBuffer ==
    [][PySendRaises => pybuf' = pyprior]_vars

====
